---------------------------- MODULE Spec2Model ----------------------------
(***************************************************************************)
(* A state-machine model of train(config) in src/train.py: the dataset     *)
(* try/except, the epoch loop, the per-batch optimisation steps with and   *)
(* without the gradient scaler, the validation loop, the scheduler step,   *)
(* the metric log lines and the best-model checkpoint decision.            *)
(*                                                                         *)
(* The collaborators that train.py imports (dataset, model, logger,        *)
(* save_checkpoint, the optimiser, the scaler and the scheduler) are seen  *)
(* through the calls train.py makes on them: a call either returns or      *)
(* raises, and the values it returns (a batch loss, the number of correct  *)
(* predictions of a batch, whether the scheduler lowers the learning rate) *)
(* are chosen nondeterministically within their ranges.                    *)
(***************************************************************************)
EXTENDS Integers, Sequences, FiniteSets

\* ---------------------------------------------------------------- bounds
MaxEpochs == 2
MaxSamples == 2
MaxBatchSize == 2

\* loss.item() of one batch, abstracted to a small set of non-negative values
LossValues == {1}

VARIABLES
    \* inputs of the run, fixed at the call
    cuda_available,   \* torch.cuda.is_available()
    num_epochs,       \* config['num_epochs']
    batch_size,       \* config['batch_size']
    n_train,          \* number of samples the training loader yields
    n_val,            \* number of samples the validation loader yields
    \* control
    pc,               \* position in train()
    exc,              \* the exception train() ended with, or "none"
    failed_at,        \* the position of the step that raised, or "none"
    \* locals of train()
    epoch,
    batch,            \* index of the next training batch of this epoch
    vbatch,           \* index of the next validation batch of this epoch
    loss, predicted,  \* loss.item() and predicted.eq(labels).sum() of the batch
    train_loss, correct, total,
    val_loss, val_correct, val_total,
    val_acc, best_val_acc,
    \* collaborators' state
    mode,             \* "train" after model.train(), "eval" after model.eval()
    grads,            \* "none", "zero" after zero_grad, "computed" after backward
    opt_steps,        \* optimizer updates applied to the parameters
    scaler_updates,   \* scaler.update() calls
    lr_reductions,    \* times the scheduler lowered the learning rate
    log,              \* the lines logger.log wrote, by kind
    ckpts,            \* the save_checkpoint calls, in order
    \* history
    calls,            \* the calls of the current training batch, in order
    phases,           \* the events of the current epoch, in order
    val_hist,         \* val_acc of every epoch that computed it
    objects,          \* what train() has constructed so far
    epochs_run,       \* the values of epoch the loop body ran with, in order
    sched_calls       \* the arguments of the scheduler.step calls, in order

vars == <<cuda_available, num_epochs, batch_size, n_train, n_val, pc, exc,
          failed_at, epoch, batch, vbatch, loss, predicted, train_loss,
          correct, total, val_loss, val_correct, val_total, val_acc,
          best_val_acc, mode, grads, opt_steps, scaler_updates,
          lr_reductions, log, ckpts, calls, phases, val_hist, objects,
          epochs_run, sched_calls>>

inputs == <<cuda_available, num_epochs, batch_size, n_train, n_val>>
train_acc == <<train_loss, correct, total>>
val_accum == <<val_loss, val_correct, val_total>>
optim == <<grads, opt_steps, scaler_updates>>
ghost == <<objects, epochs_run, sched_calls>>

\* ------------------------------------------------------------- helpers
Min(a, b) == IF a < b THEN a ELSE b

\* len(loader): the batches a loader over n samples yields
NumBatches(n) == (n + batch_size - 1) \div batch_size

\* labels.size(0) of batch k (0-based) of a loader over n samples
BatchLen(n, k) == Min(batch_size, n - k * batch_size)

\* samples in the first k batches of a loader over n samples
Processed(n, k) == Min(k * batch_size, n)

\* an accuracy in percent, 100. * c / t, kept exact as a fraction
Pct(c, t) == [num |-> 100 * c, den |-> t]
Zero == [num |-> 0, den |-> 1]
Gt(a, b) == a.num * b.den > b.num * a.den
Eq(a, b) == a.num * b.den = b.num * a.den

\* ---------------------------------------------------------------- Init
Init ==
    /\ cuda_available \in BOOLEAN
    /\ num_epochs \in 0..MaxEpochs
    /\ batch_size \in 1..MaxBatchSize
    /\ n_train \in 0..MaxSamples
    /\ n_val \in 0..MaxSamples
    /\ pc = "start"
    /\ exc = "none"
    /\ failed_at = "none"
    /\ epoch = 0
    /\ batch = 0
    /\ vbatch = 0
    /\ loss = 0
    /\ predicted = 0
    /\ train_loss = 0 /\ correct = 0 /\ total = 0
    /\ val_loss = 0 /\ val_correct = 0 /\ val_total = 0
    /\ val_acc = Zero
    /\ best_val_acc = Zero
    /\ mode = "none"
    /\ grads = "none"
    /\ opt_steps = 0
    /\ scaler_updates = 0
    /\ lr_reductions = 0
    /\ log = <<>>
    /\ ckpts = <<>>
    /\ calls = <<>>
    /\ phases = <<>>
    /\ val_hist = <<>>
    /\ objects = {}
    /\ epochs_run = <<>>
    /\ sched_calls = <<>>

\* --------------------------------------------------------------- setup
\* lines 17-27: the logger and the device lines
Start ==
    /\ pc = "start"
    /\ log' = IF cuda_available THEN log \o <<"gpu_name", "gpu_memory">>
                                ELSE Append(log, "cpu")
    /\ pc' = "datasets"
    /\ UNCHANGED <<ghost, inputs, exc, failed_at, epoch, batch, vbatch, loss,
                   predicted, train_acc, val_accum, val_acc, best_val_acc,
                   mode, optim, lr_reductions, ckpts, calls, phases,
                   val_hist>>

\* lines 30-38: both datasets are constructed
CreateDatasets ==
    /\ pc = "datasets"
    /\ objects' = {"train_dataset", "val_dataset"}
    /\ pc' = "loaders"
    /\ UNCHANGED <<epochs_run, sched_calls, inputs, exc, failed_at, epoch,
                   batch, vbatch, loss, predicted, train_acc, val_accum,
                   val_acc, best_val_acc, mode, optim, lr_reductions, log,
                   ckpts, calls, phases, val_hist>>

\* the handler of lines 39-41 without its return
DatasetErrorNoReturn(which) ==
    /\ pc = "datasets"
    /\ objects' = IF which = "val" THEN {"train_dataset"} ELSE {}
    /\ log' = Append(log, "error_creating_datasets")
    /\ failed_at' = "datasets"
    /\ pc' = "loaders"
    /\ UNCHANGED <<epochs_run, sched_calls, inputs, exc, epoch, batch, vbatch,
                   loss, predicted, train_acc, val_accum, val_acc,
                   best_val_acc, mode, optim, lr_reductions, ckpts, calls,
                   phases, val_hist>>

\* lines 30-41: the constructor of the `which` dataset raises an Exception; the
\* handler logs one line and returns
DatasetError(which) ==
    /\ pc = "datasets"
    /\ objects' = IF which = "val" THEN {"train_dataset"} ELSE {}
    /\ log' = Append(log, "error_creating_datasets")
    /\ failed_at' = "datasets"
    /\ pc' = "returned"
    /\ UNCHANGED <<epochs_run, sched_calls, inputs, exc, epoch, batch, vbatch,
                   loss, predicted, train_acc, val_accum, val_acc,
                   best_val_acc, mode, optim, lr_reductions, ckpts, calls,
                   phases, val_hist>>

\* lines 44-57
CreateDataloaders ==
    /\ pc = "loaders"
    /\ objects' = objects \cup {"train_loader", "val_loader"}
    /\ pc' = "info"
    /\ UNCHANGED <<epochs_run, sched_calls, inputs, exc, failed_at, epoch,
                   batch, vbatch, loss, predicted, train_acc, val_accum,
                   val_acc, best_val_acc, mode, optim, lr_reductions, log,
                   ckpts, calls, phases, val_hist>>

\* lines 59-61
LogInfo ==
    /\ pc = "info"
    /\ log' = log \o <<"num_classes", "training_samples", "validation_samples">>
    /\ pc' = "init"
    /\ UNCHANGED <<ghost, inputs, exc, failed_at, epoch, batch, vbatch, loss,
                   predicted, train_acc, val_accum, val_acc, best_val_acc,
                   mode, optim, lr_reductions, ckpts, calls, phases,
                   val_hist>>

\* lines 64-82: model, scaler, criterion, optimizer, scheduler
InitModel ==
    /\ pc = "init"
    /\ objects' = objects \cup {"model", "scaler", "criterion", "optimizer",
                                "scheduler"}
    /\ pc' = "begin"
    /\ UNCHANGED <<epochs_run, sched_calls, inputs, exc, failed_at, epoch,
                   batch, vbatch, loss, predicted, train_acc, val_accum,
                   val_acc, best_val_acc, mode, optim, lr_reductions, log,
                   ckpts, calls, phases, val_hist>>

\* lines 85-86
StartTraining ==
    /\ pc = "begin"
    /\ best_val_acc' = Zero
    /\ log' = Append(log, "starting_training")
    /\ epoch' = 0
    /\ pc' = "epoch"
    /\ UNCHANGED <<ghost, inputs, exc, failed_at, batch, vbatch, loss,
                   predicted, train_acc, val_accum, val_acc, mode, optim,
                   lr_reductions, ckpts, calls, phases, val_hist>>

\* ----------------------------------------------------------- epoch loop
\* the loop of line 88 with one epoch too many
EpochStartOffByOne ==
    /\ pc = "epoch"
    /\ epoch <= num_epochs
    /\ mode' = "train"
    /\ train_loss' = 0
    /\ correct' = 0
    /\ total' = 0
    /\ batch' = 0
    /\ phases' = <<>>
    /\ calls' = <<>>
    /\ epochs_run' = Append(epochs_run, epoch)
    /\ pc' = "train"
    /\ UNCHANGED <<objects, sched_calls, inputs, exc, failed_at, epoch,
                   vbatch, loss, predicted, val_accum, val_acc, best_val_acc,
                   optim, lr_reductions, log, ckpts, val_hist>>

\* lines 88-95: the next value of range(num_epochs); model.train() and the resets
EpochStart ==
    /\ pc = "epoch"
    /\ epoch < num_epochs
    /\ mode' = "train"
    /\ train_loss' = 0
    /\ correct' = 0
    /\ total' = 0
    /\ batch' = 0
    /\ phases' = <<>>
    /\ calls' = <<>>
    /\ epochs_run' = Append(epochs_run, epoch)
    /\ pc' = "train"
    /\ UNCHANGED <<objects, sched_calls, inputs, exc, failed_at, epoch,
                   vbatch, loss, predicted, val_accum, val_acc, best_val_acc,
                   optim, lr_reductions, log, ckpts, val_hist>>

\* line 88: range(num_epochs) is exhausted; train() falls off its end
Return ==
    /\ pc = "epoch"
    /\ ~(epoch < num_epochs)
    /\ pc' = "returned"
    /\ UNCHANGED <<ghost, inputs, exc, failed_at, epoch, batch, vbatch, loss,
                   predicted, train_acc, val_accum, val_acc, best_val_acc,
                   mode, optim, lr_reductions, log, ckpts, calls, phases,
                   val_hist>>

\* ------------------------------------------------------- training batch
\* lines 96-99: the loader yields a batch; optimizer.zero_grad()
ZeroGrad ==
    /\ pc = "train"
    /\ batch < NumBatches(n_train)
    /\ grads' = "zero"
    /\ calls' = <<"zero_grad">>
    /\ pc' = "forward"
    /\ UNCHANGED <<ghost, inputs, exc, failed_at, epoch, batch, vbatch, loss,
                   predicted, train_acc, val_accum, val_acc, best_val_acc,
                   mode, opt_steps, scaler_updates, lr_reductions, log, ckpts,
                   phases, val_hist>>

\* lines 101-105 and 112-113: outputs = model(inputs); loss = criterion(...)
Forward ==
    /\ pc = "forward"
    /\ \E l \in LossValues : loss' = l
    /\ \E c \in 0..BatchLen(n_train, batch) : predicted' = c
    /\ calls' = Append(calls, "forward")
    /\ pc' = "backward"
    /\ UNCHANGED <<ghost, inputs, exc, failed_at, epoch, batch, vbatch,
                   train_acc, val_accum, val_acc, best_val_acc, mode, optim,
                   lr_reductions, log, ckpts, phases, val_hist>>

\* line 107 (CUDA) or line 114
Backward ==
    /\ pc = "backward"
    /\ grads' = "computed"
    /\ calls' = Append(calls, IF cuda_available THEN "scaler.scale.backward"
                                                ELSE "loss.backward")
    /\ pc' = "step"
    /\ UNCHANGED <<ghost, inputs, exc, failed_at, epoch, batch, vbatch, loss,
                   predicted, train_acc, val_accum, val_acc, best_val_acc,
                   mode, opt_steps, scaler_updates, lr_reductions, log, ckpts,
                   phases, val_hist>>

\* line 115 taken on both branches: the optimizer stepped directly under CUDA
OptimizerStepDirect ==
    /\ pc = "step"
    /\ opt_steps' = opt_steps + 1
    /\ calls' = Append(calls, "optimizer.step")
    /\ pc' = IF cuda_available THEN "update" ELSE "accumulate"
    /\ UNCHANGED <<ghost, inputs, exc, failed_at, epoch, batch, vbatch, loss,
                   predicted, train_acc, val_accum, val_acc, best_val_acc,
                   mode, grads, scaler_updates, lr_reductions, log, ckpts,
                   phases, val_hist>>

\* line 108 (CUDA) or line 115
OptimizerStep ==
    /\ pc = "step"
    /\ opt_steps' = opt_steps + 1
    /\ calls' = Append(calls, IF cuda_available THEN "scaler.step"
                                                ELSE "optimizer.step")
    /\ pc' = IF cuda_available THEN "update" ELSE "accumulate"
    /\ UNCHANGED <<ghost, inputs, exc, failed_at, epoch, batch, vbatch, loss,
                   predicted, train_acc, val_accum, val_acc, best_val_acc,
                   mode, grads, scaler_updates, lr_reductions, log, ckpts,
                   phases, val_hist>>

\* line 109
ScalerUpdate ==
    /\ pc = "update"
    /\ scaler_updates' = scaler_updates + 1
    /\ calls' = Append(calls, "scaler.update")
    /\ pc' = "accumulate"
    /\ UNCHANGED <<ghost, inputs, exc, failed_at, epoch, batch, vbatch, loss,
                   predicted, train_acc, val_accum, val_acc, best_val_acc,
                   mode, grads, opt_steps, lr_reductions, log, ckpts, phases,
                   val_hist>>

\* lines 117-126 followed by a scheduler.step inside the batch loop
AccumulateWithSchedulerStep ==
    /\ pc = "accumulate"
    /\ train_loss' = train_loss + loss
    /\ total' = total + BatchLen(n_train, batch)
    /\ correct' = correct + predicted
    /\ batch' = batch + 1
    /\ phases' = phases \o <<"train_batch", "scheduler.step">>
    /\ sched_calls' = Append(sched_calls, val_acc)
    /\ pc' = "train"
    /\ UNCHANGED <<objects, epochs_run, inputs, exc, failed_at, epoch, vbatch,
                   loss, predicted, val_accum, val_acc, best_val_acc, mode,
                   optim, lr_reductions, log, ckpts, calls, val_hist>>

\* lines 117-126
Accumulate ==
    /\ pc = "accumulate"
    /\ train_loss' = train_loss + loss
    /\ total' = total + BatchLen(n_train, batch)
    /\ correct' = correct + predicted
    /\ batch' = batch + 1
    /\ phases' = Append(phases, "train_batch")
    /\ pc' = "train"
    /\ UNCHANGED <<ghost, inputs, exc, failed_at, epoch, vbatch, loss,
                   predicted, val_accum, val_acc, best_val_acc, mode, optim,
                   lr_reductions, log, ckpts, calls, val_hist>>

\* ----------------------------------------------------------- validation
\* lines 129-132 without the resets of lines 130-132
BeginValidationNoReset ==
    /\ pc = "train"
    /\ ~(batch < NumBatches(n_train))
    /\ mode' = "eval"
    /\ vbatch' = 0
    /\ pc' = "val"
    /\ UNCHANGED <<ghost, inputs, exc, failed_at, epoch, batch, loss,
                   predicted, train_acc, val_accum, val_acc, best_val_acc,
                   optim, lr_reductions, log, ckpts, calls, phases, val_hist>>

\* lines 96, 129-132: the training loader is exhausted; model.eval() and the resets
BeginValidation ==
    /\ pc = "train"
    /\ ~(batch < NumBatches(n_train))
    /\ mode' = "eval"
    /\ val_loss' = 0
    /\ val_correct' = 0
    /\ val_total' = 0
    /\ vbatch' = 0
    /\ pc' = "val"
    /\ UNCHANGED <<ghost, inputs, exc, failed_at, epoch, batch, loss,
                   predicted, train_acc, val_acc, best_val_acc, optim,
                   lr_reductions, log, ckpts, calls, phases, val_hist>>

\* a validation batch that also runs the optimisation steps of a training batch
ValBatchTraining ==
    /\ pc = "val"
    /\ vbatch < NumBatches(n_val)
    /\ \E l \in LossValues, c \in 0..BatchLen(n_val, vbatch) :
          /\ loss' = l
          /\ predicted' = c
          /\ val_loss' = val_loss + l
          /\ val_correct' = val_correct + c
    /\ val_total' = val_total + BatchLen(n_val, vbatch)
    /\ vbatch' = vbatch + 1
    /\ grads' = "computed"
    /\ opt_steps' = opt_steps + 1
    /\ phases' = Append(phases, "val_batch")
    /\ UNCHANGED <<ghost, inputs, pc, exc, failed_at, epoch, batch, train_acc,
                   val_acc, best_val_acc, mode, scaler_updates, lr_reductions,
                   log, ckpts, calls, val_hist>>

\* lines 135-149: one validation batch under torch.no_grad()
ValBatch ==
    /\ pc = "val"
    /\ vbatch < NumBatches(n_val)
    /\ \E l \in LossValues, c \in 0..BatchLen(n_val, vbatch) :
          /\ loss' = l
          /\ predicted' = c
          /\ val_loss' = val_loss + l
          /\ val_correct' = val_correct + c
    /\ val_total' = val_total + BatchLen(n_val, vbatch)
    /\ vbatch' = vbatch + 1
    /\ phases' = Append(phases, "val_batch")
    /\ UNCHANGED <<ghost, inputs, pc, exc, failed_at, epoch, batch, train_acc,
                   val_acc, best_val_acc, mode, optim, lr_reductions, log,
                   ckpts, calls, val_hist>>

\* line 151 with val_total > 0
ComputeValAcc ==
    /\ pc = "val"
    /\ ~(vbatch < NumBatches(n_val))
    /\ val_total # 0
    /\ val_acc' = Pct(val_correct, val_total)
    /\ val_hist' = Append(val_hist, Pct(val_correct, val_total))
    /\ pc' = "sched"
    /\ UNCHANGED <<ghost, inputs, exc, failed_at, epoch, batch, vbatch, loss,
                   predicted, train_acc, val_accum, best_val_acc, mode, optim,
                   lr_reductions, log, ckpts, calls, phases>>

\* line 151 guarded against an empty loader: the accuracy taken as 0.0
ValAccGuarded ==
    /\ pc = "val"
    /\ ~(vbatch < NumBatches(n_val))
    /\ val_total = 0
    /\ val_acc' = Zero
    /\ val_hist' = Append(val_hist, Zero)
    /\ pc' = "sched"
    /\ UNCHANGED <<ghost, inputs, exc, failed_at, epoch, batch, vbatch, loss,
                   predicted, train_acc, val_accum, best_val_acc, mode, optim,
                   lr_reductions, log, ckpts, calls, phases>>

\* line 151 with val_total = 0: 100. * 0 / 0 raises ZeroDivisionError
ValAccDivByZero ==
    /\ pc = "val"
    /\ ~(vbatch < NumBatches(n_val))
    /\ val_total = 0
    /\ exc' = "ZeroDivisionError"
    /\ failed_at' = "val_acc"
    /\ pc' = "raised"
    /\ UNCHANGED <<ghost, inputs, epoch, batch, vbatch, loss, predicted,
                   train_acc, val_accum, val_acc, best_val_acc, mode, optim,
                   lr_reductions, log, ckpts, calls, phases, val_hist>>

\* ------------------------------------------------- scheduler and logging
\* line 154: scheduler.step(val_acc); ReduceLROnPlateau keeps or lowers the rate
SchedulerStep ==
    /\ pc = "sched"
    /\ \E d \in {0, 1} : lr_reductions' = lr_reductions + d
    /\ phases' = Append(phases, "scheduler.step")
    /\ sched_calls' = Append(sched_calls, val_acc)
    /\ pc' = "log_lr"
    /\ UNCHANGED <<objects, epochs_run, inputs, exc, failed_at, epoch, batch,
                   vbatch, loss, predicted, train_acc, val_accum, val_acc,
                   best_val_acc, mode, optim, log, ckpts, calls, val_hist>>

\* lines 155-156
LogLearningRate ==
    /\ pc = "log_lr"
    /\ log' = Append(log, "learning_rate")
    /\ phases' = Append(phases, "log")
    /\ pc' = "log_epoch"
    /\ UNCHANGED <<ghost, inputs, exc, failed_at, epoch, batch, vbatch, loss,
                   predicted, train_acc, val_accum, val_acc, best_val_acc,
                   mode, optim, lr_reductions, ckpts, calls, val_hist>>

\* line 159
LogEpoch ==
    /\ pc = "log_epoch"
    /\ log' = Append(log, "epoch")
    /\ phases' = Append(phases, "log")
    /\ pc' = "log_train"
    /\ UNCHANGED <<ghost, inputs, exc, failed_at, epoch, batch, vbatch, loss,
                   predicted, train_acc, val_accum, val_acc, best_val_acc,
                   mode, optim, lr_reductions, ckpts, calls, val_hist>>

\* lines 160-161 with a non-empty training loader
LogTrainMetrics ==
    /\ pc = "log_train"
    /\ NumBatches(n_train) # 0
    /\ total # 0
    /\ log' = Append(log, "train_metrics")
    /\ phases' = Append(phases, "log")
    /\ pc' = "log_val"
    /\ UNCHANGED <<ghost, inputs, exc, failed_at, epoch, batch, vbatch, loss,
                   predicted, train_acc, val_accum, val_acc, best_val_acc,
                   mode, optim, lr_reductions, ckpts, calls, val_hist>>

\* lines 160-161 with an empty training loader: train_loss / len(train_loader)
\* raises ZeroDivisionError while the message is built
LogTrainDivByZero ==
    /\ pc = "log_train"
    /\ (NumBatches(n_train) = 0 \/ total = 0)
    /\ exc' = "ZeroDivisionError"
    /\ failed_at' = "log_train"
    /\ pc' = "raised"
    /\ UNCHANGED <<ghost, inputs, epoch, batch, vbatch, loss, predicted,
                   train_acc, val_accum, val_acc, best_val_acc, mode, optim,
                   lr_reductions, log, ckpts, calls, phases, val_hist>>

\* lines 162-163; len(val_loader) > 0 here, or line 151 would have raised
LogValMetrics ==
    /\ pc = "log_val"
    /\ log' = Append(log, "val_metrics")
    /\ phases' = Append(phases, "log")
    /\ pc' = "decide"
    /\ UNCHANGED <<ghost, inputs, exc, failed_at, epoch, batch, vbatch, loss,
                   predicted, train_acc, val_accum, val_acc, best_val_acc,
                   mode, optim, lr_reductions, ckpts, calls, val_hist>>

\* ----------------------------------------------------------- checkpoint
\* line 166 with >= in place of >
ImprovedOrEqual == ~Gt(best_val_acc, val_acc)

\* line 166: if val_acc > best_val_acc
Improved == Gt(val_acc, best_val_acc)

\* lines 166-168 without the assignment of line 167
NewBestNoUpdate ==
    /\ pc = "decide"
    /\ Improved
    /\ phases' = Append(phases, "decide")
    /\ pc' = "save"
    /\ UNCHANGED <<ghost, inputs, exc, failed_at, epoch, batch, vbatch, loss,
                   predicted, train_acc, val_accum, val_acc, best_val_acc,
                   mode, optim, lr_reductions, log, ckpts, calls, val_hist>>

\* lines 166-167: the accuracy improved; best_val_acc = val_acc
NewBest ==
    /\ pc = "decide"
    /\ Improved
    /\ best_val_acc' = val_acc
    /\ phases' = Append(phases, "decide")
    /\ pc' = "save"
    /\ UNCHANGED <<ghost, inputs, exc, failed_at, epoch, batch, vbatch, loss,
                   predicted, train_acc, val_accum, val_acc, mode, optim,
                   lr_reductions, log, ckpts, calls, val_hist>>

\* line 166 false: the epoch ends without a checkpoint
NoImprovement ==
    /\ pc = "decide"
    /\ ~Improved
    /\ phases' = Append(phases, "decide")
    /\ epoch' = epoch + 1
    /\ pc' = "epoch"
    /\ UNCHANGED <<ghost, inputs, exc, failed_at, batch, vbatch, loss,
                   predicted, train_acc, val_accum, val_acc, best_val_acc,
                   mode, optim, lr_reductions, log, ckpts, calls, val_hist>>

\* lines 168-172: save_checkpoint(model, optimizer, epoch, val_loss/len, val_acc, dir)
SaveCheckpoint ==
    /\ pc = "save"
    /\ ckpts' = Append(ckpts, [epoch |-> epoch, acc |-> val_acc,
                               opt_steps |-> opt_steps])
    /\ phases' = Append(phases, "save_checkpoint")
    /\ pc' = "log_best"
    /\ UNCHANGED <<ghost, inputs, exc, failed_at, epoch, batch, vbatch, loss,
                   predicted, train_acc, val_accum, val_acc, best_val_acc,
                   mode, optim, lr_reductions, log, calls, val_hist>>

\* line 173, then the next value of range(num_epochs)
LogNewBest ==
    /\ pc = "log_best"
    /\ log' = Append(log, "new_best")
    /\ phases' = Append(phases, "log_best")
    /\ epoch' = epoch + 1
    /\ pc' = "epoch"
    /\ UNCHANGED <<ghost, inputs, exc, failed_at, batch, vbatch, loss,
                   predicted, train_acc, val_accum, val_acc, best_val_acc,
                   mode, optim, lr_reductions, ckpts, calls, val_hist>>

\* ------------------------------------------------------------- failures
\* the positions whose step calls into a collaborator, which may raise
Fallible == {"loaders", "info", "init", "begin", "train", "forward",
             "backward", "step", "update", "accumulate", "val", "sched",
             "log_lr", "log_epoch", "log_train", "log_val", "save",
             "log_best"}

\* a handler around the step that swallows the exception and returns
RaiseCaught ==
    /\ pc \in Fallible
    /\ failed_at' = pc
    /\ pc' = "returned"
    /\ UNCHANGED <<ghost, inputs, exc, epoch, batch, vbatch, loss, predicted,
                   train_acc, val_accum, val_acc, best_val_acc, mode, optim,
                   lr_reductions, log, ckpts, calls, phases, val_hist>>

\* lines 43-173 hold no try: an exception raised by a step leaves train()
Raise ==
    /\ pc \in Fallible
    /\ exc' = "Exception"
    /\ failed_at' = pc
    /\ pc' = "raised"
    /\ UNCHANGED <<ghost, inputs, epoch, batch, vbatch, loss, predicted,
                   train_acc, val_accum, val_acc, best_val_acc, mode, optim,
                   lr_reductions, log, ckpts, calls, phases, val_hist>>

Next ==
    \/ Start
    \/ CreateDatasets
    \/ \E which \in {"train", "val"} : DatasetError(which)
    \/ CreateDataloaders
    \/ LogInfo
    \/ InitModel
    \/ StartTraining
    \/ EpochStart
    \/ Return
    \/ ZeroGrad
    \/ Forward
    \/ Backward
    \/ OptimizerStep
    \/ ScalerUpdate
    \/ Accumulate
    \/ BeginValidation
    \/ ValBatch
    \/ ComputeValAcc
    \/ ValAccDivByZero
    \/ SchedulerStep
    \/ LogLearningRate
    \/ LogEpoch
    \/ LogTrainMetrics
    \/ LogTrainDivByZero
    \/ LogValMetrics
    \/ NewBest
    \/ NoImprovement
    \/ SaveCheckpoint
    \/ LogNewBest
    \/ Raise

Spec == Init /\ [][Next]_vars

\* train() runs on one thread to its end: a step that can be taken is taken
FairSpec == Spec /\ WF_vars(Next)
\* ------------------------------------------------------- claim helpers
\* the position of the last step: where train() is, or where it raised
Pos == IF pc = "raised" THEN failed_at ELSE pc

Count(seq, x) == Cardinality({i \in 1..Len(seq) : seq[i] = x})

RECURSIVE MaxAcc(_)
\* the highest accuracy of a sequence, and 0.0 for the empty one
MaxAcc(seq) ==
    IF seq = <<>> THEN Zero
    ELSE LET m == MaxAcc(SubSeq(seq, 1, Len(seq) - 1))
             x == seq[Len(seq)]
         IN IF Gt(x, m) THEN x ELSE m

\* the highest validation accuracy of the epochs before epoch e (0-based)
BestBefore(e) == MaxAcc(SubSeq(val_hist, 1, e))

\* the epochs (0-based) in which save_checkpoint was called
SavedEpochs == {ckpts[i].epoch : i \in 1..Len(ckpts)}

\* C1: when the construction of the training or of the validation dataset
\* raises, train() has returned without an exception, the log holds exactly one
\* 'Error creating datasets' line and nothing after it, and no dataloader,
\* model or optimizer was created, no epoch ran and no checkpoint was saved.
C1_DatasetErrorCaught ==
    failed_at = "datasets" =>
        /\ pc = "returned"
        /\ exc = "none"
        /\ Count(log, "error_creating_datasets") = 1
        /\ log[Len(log)] = "error_creating_datasets"
        /\ objects \subseteq {"train_dataset"}
        /\ epochs_run = <<>>
        /\ opt_steps = 0
        /\ sched_calls = <<>>
        /\ val_hist = <<>>
        /\ ckpts = <<>>

\* the validation dataset raised after the training dataset was constructed
C1_Witness ==
    /\ failed_at = "datasets"
    /\ pc = "returned"
    /\ objects = {"train_dataset"}
    /\ Count(log, "error_creating_datasets") = 1

\* C2: save_checkpoint is called in an epoch only if the epoch's validation
\* accuracy is strictly above the best of all earlier epochs (0.0 before the
\* first), at most once per epoch, and in every epoch that reached its
\* checkpoint decision it is called exactly when the accuracy is strictly above.
C2_SaveIffStrictlyBetter ==
    /\ \A i \in 1..Len(ckpts) :
          /\ ckpts[i].epoch + 1 \in 1..Len(val_hist)
          /\ Gt(val_hist[ckpts[i].epoch + 1], BestBefore(ckpts[i].epoch))
          /\ ckpts[i].acc = val_hist[ckpts[i].epoch + 1]
    /\ \A i, j \in 1..Len(ckpts) : i < j => ckpts[i].epoch < ckpts[j].epoch
    /\ \A e \in 0..(epoch - 1) :
          (e \in SavedEpochs) <=> Gt(val_hist[e + 1], BestBefore(e))

\* two epochs ran to the end, the second tied the first above 0: one checkpoint
C2_Witness ==
    /\ pc = "returned"
    /\ Len(val_hist) = 2
    /\ Gt(val_hist[1], Zero)
    /\ Eq(val_hist[1], val_hist[2])
    /\ SavedEpochs = {0}

\* C3: a failure raised after the datasets were constructed is not caught:
\* train() ends with that exception, and nothing happens after the failing step.
C3_FailurePropagates ==
    /\ [](failed_at \notin {"none", "datasets"} => pc = "raised" /\ exc # "none")
    /\ [](pc = "raised" <=> exc # "none")
    /\ [][pc = "raised" => UNCHANGED vars]_vars

\* save_checkpoint raised in the second epoch, after the first saved its own
C3_Witness ==
    /\ pc = "raised"
    /\ exc = "Exception"
    /\ failed_at = "save"
    /\ epoch = 1
    /\ Len(ckpts) = 1

Rep(x, n) == [i \in 1..n |-> x]
IsPrefix(a, b) == Len(a) <= Len(b) /\ SubSeq(b, 1, Len(a)) = a

\* C4: a run that returns normally after its datasets were constructed ran
\* exactly the epochs 0..num_epochs-1, in order; with num_epochs = 0 it returns
\* right after the 'Starting training...' line with no scheduler step and no
\* checkpoint; and a run in which no step fails does return.
C4_RunsNumEpochsAndTerminates ==
    /\ [](\A i \in 1..Len(epochs_run) : epochs_run[i] = i - 1)
    /\ [](pc = "returned" /\ failed_at = "none" =>
             Len(epochs_run) = num_epochs)
    /\ [](pc = "returned" /\ failed_at = "none" /\ num_epochs = 0 =>
             /\ log[Len(log)] = "starting_training"
             /\ sched_calls = <<>>
             /\ ckpts = <<>>)
    /\ ([](pc # "raised") => <>(pc = "returned"))

\* a run of two epochs over non-empty loaders returned normally
C4_Witness ==
    /\ pc = "returned"
    /\ failed_at = "none"
    /\ n_train > 0
    /\ n_val > 0
    /\ epochs_run = <<0, 1>>

\* the events of a whole epoch that saves a checkpoint, in the order of the code
EpochPhases ==
    Rep("train_batch", NumBatches(n_train)) \o Rep("val_batch", NumBatches(n_val))
        \o <<"scheduler.step", "log", "log", "log", "log", "decide",
             "save_checkpoint", "log_best">>

\* C5: the events of an epoch come in the order training batches, validation
\* batches, one scheduler.step, the log lines, the checkpoint decision, the
\* save; the scheduler is stepped once per epoch, with that epoch's validation
\* accuracy, after all batches and before the checkpoint.
C5_PhaseOrder ==
    /\ IsPrefix(phases, EpochPhases)
    /\ Len(sched_calls) =
           IF epochs_run = <<>> THEN 0
           ELSE Len(epochs_run) - 1 + Count(phases, "scheduler.step")
    /\ \A i \in 1..Len(sched_calls) : sched_calls[i] = val_hist[i]
    /\ (pc = "epoch" /\ epoch > 0 =>
           phases[Len(phases)] \in {"decide", "log_best"})

\* an epoch of two training and two validation batches ended with a checkpoint
C5_Witness ==
    /\ pc = "epoch"
    /\ epoch = 1
    /\ NumBatches(n_train) = 2
    /\ NumBatches(n_val) = 2
    /\ phases = EpochPhases

\* the first epoch (1-based) that attains the highest validation accuracy
BestEpoch ==
    CHOOSE e \in 1..Len(val_hist) :
        /\ Eq(val_hist[e], MaxAcc(val_hist))
        /\ \A f \in 1..(e - 1) : ~Eq(val_hist[f], MaxAcc(val_hist))

\* C6: after a normal return with some validation accuracy above 0, the last
\* checkpoint saved is that of the earliest epoch with the highest validation
\* accuracy, with that accuracy and that 0-based epoch; between epochs
\* best_val_acc is the highest of 0.0 and the accuracies so far, and it never
\* decreases.
C6_BestCheckpoint ==
    /\ [](pc = "returned" /\ failed_at = "none"
              /\ (\E e \in 1..Len(val_hist) : Gt(val_hist[e], Zero)) =>
             /\ ckpts # <<>>
             /\ ckpts[Len(ckpts)].epoch = BestEpoch - 1
             /\ ckpts[Len(ckpts)].acc = MaxAcc(val_hist))
    /\ [](pc = "epoch" => best_val_acc = MaxAcc(val_hist))
    /\ [][~Gt(best_val_acc, best_val_acc')]_vars

\* the second epoch scored above 0 and below the first: the first's checkpoint stays
C6_Witness ==
    /\ pc = "returned"
    /\ Len(val_hist) = 2
    /\ Gt(val_hist[1], val_hist[2])
    /\ Gt(val_hist[2], Zero)
    /\ Len(ckpts) = 1
    /\ ckpts[1].epoch = 0

\* the calls of one training batch, lines 99-115
ExpectedCalls ==
    IF cuda_available
      THEN <<"zero_grad", "forward", "scaler.scale.backward", "scaler.step",
             "scaler.update">>
      ELSE <<"zero_grad", "forward", "loss.backward", "optimizer.step">>

\* the training batches whose steps are all done, over the whole run
BatchesDone ==
    IF epochs_run = <<>> THEN 0
    ELSE (Len(epochs_run) - 1) * NumBatches(n_train) + batch

\* C7: a training batch makes its calls in the order zero_grad, forward,
\* backward, step: through the scaler (scale-backward, step, update) and never
\* on the optimizer directly with CUDA, directly and never through the scaler
\* without; and there is one optimizer step per training batch.
C7_BatchStepOrder ==
    /\ IsPrefix(calls, ExpectedCalls)
    /\ (Pos = "accumulate" => calls = ExpectedCalls)
    /\ (Pos = "train" /\ batch > 0 => calls = ExpectedCalls)
    /\ opt_steps = BatchesDone + (IF Pos \in {"update", "accumulate"} THEN 1 ELSE 0)
    /\ scaler_updates =
           IF cuda_available
             THEN BatchesDone + (IF Pos = "accumulate" THEN 1 ELSE 0)
             ELSE 0

\* with CUDA, the second batch of an epoch has gone through the scaler
C7_Witness ==
    /\ pc = "accumulate"
    /\ cuda_available
    /\ batch = 1
    /\ calls = ExpectedCalls
    /\ opt_steps = 2
    /\ scaler_updates = 2

\* what the validation loop must leave alone: the gradients, the optimizer and
\* scaler state, the learning rate, the best accuracy, the training
\* accumulators, the checkpoints and the log
TrainingState ==
    <<grads, opt_steps, scaler_updates, lr_reductions, best_val_acc,
      train_loss, correct, total, epoch, batch, mode, ckpts, log, calls,
      sched_calls>>

\* C8: from model.eval() to the end of the validation batch loop nothing of the
\* training state changes: no zero_grad, backward, optimizer step or scaler
\* call, and the same learning rate and best_val_acc; a validation batch
\* changes val_loss, val_correct and val_total (and the batch's own loss and
\* predictions) only.
C8_ValidationFrame ==
    /\ [][pc = "val" => UNCHANGED TrainingState]_vars
    /\ [][pc = "val" /\ pc' = "val" => UNCHANGED <<val_acc, val_hist>>]_vars

\* two validation batches were processed after a training phase that stepped
C8_Witness ==
    /\ pc = "val"
    /\ vbatch = 2
    /\ val_total = 2
    /\ opt_steps > 0
    /\ mode = "eval"

\* the positions of the training batch loop, lines 96-126
TrainPhase == {"train", "forward", "backward", "step", "update", "accumulate"}

\* the samples of the training and of the validation batches processed so far
\* in the current epoch
TrainSamplesSoFar == Processed(n_train, Count(phases, "train_batch"))
ValSamplesSoFar == Processed(n_val, Count(phases, "val_batch"))

\* what C9 says of the accumulators other than the two sample counts: they are
\* zero when their loop starts, correct and val_correct lie between 0 and their
\* totals, and every validation accuracy lies between 0 and 100
AccumulatorBounds ==
    /\ 0 <= correct /\ correct <= total
    /\ 0 <= val_correct /\ val_correct <= val_total
    /\ train_loss >= 0 /\ val_loss >= 0
    /\ (Pos = "train" /\ batch = 0 =>
           train_loss = 0 /\ correct = 0 /\ total = 0)
    /\ (Pos = "val" /\ vbatch = 0 =>
           val_loss = 0 /\ val_correct = 0 /\ val_total = 0)
    /\ \A i \in 1..Len(val_hist) :
          /\ val_hist[i].den > 0
          /\ ~Gt(Zero, val_hist[i])
          /\ ~Gt(val_hist[i], Pct(1, 1))

\* C9 as stated: in every reachable state the bounds hold, and total and
\* val_total are the samples processed so far in the current epoch.
C9_AsStated ==
    /\ AccumulatorBounds
    /\ total = TrainSamplesSoFar
    /\ val_total = ValSamplesSoFar

\* C9, amended: the bounds hold in every reachable state and total is the
\* training samples processed so far in the current epoch; val_total is the
\* validation samples processed so far in the current epoch except during the
\* training loop of an epoch after the first, where it still is the previous
\* epoch's total, the whole validation set.
C9_AccumulatorBounds ==
    /\ AccumulatorBounds
    /\ total = TrainSamplesSoFar
    /\ val_total = IF Pos \in TrainPhase /\ Len(epochs_run) >= 2
                     THEN n_val
                     ELSE ValSamplesSoFar

\* the second epoch is in its validation loop, after a first epoch that
\* counted correct predictions in both phases
C9_Witness ==
    /\ Len(epochs_run) = 2
    /\ pc = "val"
    /\ vbatch = 1
    /\ val_total < n_val
    /\ correct > 0
    /\ Gt(val_hist[1], Zero)

\* C10: with a validation loader that yields no batch, the first epoch raises
\* ZeroDivisionError at the validation accuracy, after all its training
\* batches stepped the optimizer; train() ends with it or an earlier failure,
\* and in no case is the scheduler stepped, a metric line logged or a
\* checkpoint saved.
C10_EmptyValidationLoader ==
    NumBatches(n_val) = 0 =>
        /\ sched_calls = <<>>
        /\ ckpts = <<>>
        /\ val_hist = <<>>
        /\ \A i \in 1..Len(log) :
              log[i] \notin {"learning_rate", "epoch", "train_metrics",
                             "val_metrics", "new_best"}
        /\ Len(epochs_run) <= 1
        /\ (pc = "returned" => failed_at = "datasets" \/ num_epochs = 0)
        /\ (pc = "raised" /\ failed_at \notin Fallible =>
               /\ failed_at = "val_acc"
               /\ exc = "ZeroDivisionError"
               /\ epochs_run = <<0>>
               /\ opt_steps = NumBatches(n_train))
        /\ (Pos = "val" => opt_steps = NumBatches(n_train))

\* the validation accuracy divided by zero after two training batches
C10_Witness ==
    /\ n_val = 0
    /\ pc = "raised"
    /\ failed_at = "val_acc"
    /\ exc = "ZeroDivisionError"
    /\ opt_steps = 2
=============================================================================
